---- MODULE Spec2Model ----
(***************************************************************************)
(* Model of the controller protocol of django-netjsonconfig               *)
(* (controller/views.py): the checksum, download_config, report_status    *)
(* and register views acting on the stored Config rows.                   *)
(*                                                                         *)
(* The views are translated from controller/views.py.  The helpers they   *)
(* import from ..utils, ..models and ..settings (get_config_or_404,       *)
(* forbid_unallowed, send_config, ControllerResponse, Config, the         *)
(* settings) are modelled from the specification document.                *)
(***************************************************************************)
EXTENDS Integers, Sequences, FiniteSets, Bags, TLC

(* ---------------------------- bounds ----------------------------------- *)
\* largest config tree an operator may give a Config (trees are 0..MaxTree)
MaxTree == 2
\* number of subscribe tasks that may wait in the queue
MaxTasks == 1
\* number of templates one device may have applied
MaxTemplates == 2

\* the changes an operator makes before leaving the Config alone
MaxChanges == 3

(* ------------------------- input domains ------------------------------- *)
\* a parameter absent from request.GET / request.POST (params.get -> None)
NoValue == "<none>"
\* the "no response" result of forbid_unallowed (Python None)
NoResponse == [status |-> 0, content |-> <<>>]

\* the primary keys the store hands out
Ids == {1, 2}
\* primary keys a request may name: every row id and one id that is never stored
PkInputs == Ids \cup {3}
\* pool the key generator draws from
KeyPool == {"6b1946a1", "c0ffee42"}
\* values the key parameter of a request may carry
KeyInputs == KeyPool \cup {NoValue}
Trees == 0..MaxTree
NameInputs == {"test-device", NoValue}

(* ---------------------------- settings --------------------------------- *)
SHARED_SECRET == "t0ps3cr3t"
BACKENDS == {"netjsonconfig.OpenWrt", "netjsonconfig.OpenWisp"}
SecretInputs == {SHARED_SECRET, "wrong-secret", NoValue}
BackendInputs == {"netjsonconfig.OpenWrt", "netjsonconfig.Unknown", NoValue}

\* Config.STATUS: the allowed status values
STATUS == {"modified", "applied", "error"}
StatusInputs == STATUS \cup {"running", NoValue}

VARIABLES
    configs,               \* the stored Config rows: id -> row
    REGISTRATION_ENABLED,  \* settings flag read when the module is loaded
    request,               \* the request handled by the last step
    response,              \* the response the last step returned
    templates,             \* the stored Template rows: id -> row
    x509,                  \* the stored Ca, Cert and Vpn rows
    subscriptions,         \* the stored TemplateSubscription rows (a bag)
    tasks,                 \* the subscribe tasks queued for the worker (a bag)
    device,                \* the device an operator edits: its config, context, templates
    composed,              \* the tree the last composition merged and rendered
    inflight,              \* the requests being handled concurrently: handler -> progress
    agent                  \* the polling device: its place in the loop, the checksum it runs

\* the state of the template API
apiVars == <<templates, x509, subscriptions, tasks>>

\* the state of the template composition engine
composeVars == <<device, composed>>

vars == <<configs, REGISTRATION_ENABLED, request, response, apiVars, composeVars,
          inflight, agent>>

(* ------------------ compilation and checksum --------------------------- *)
\* the compiled archive of a tree; trees 2k and 2k+1 differ only in
\* ways the compiler normalises away, so they compile to the same archive
Render(tree) == tree \div 2

HexChar == <<"0", "1", "2", "3", "4", "5", "6", "7",
             "8", "9", "a", "b", "c", "d", "e", "f">>

\* content hash of an archive, as a hex digest
Checksum(archive) ==
    <<HexChar[((archive * 7 + 3) % 16) + 1], HexChar[((archive * 11 + 5) % 16) + 1]>>

(* --------------------------- responses --------------------------------- *)
ControllerResponse(content, status) == [status |-> status, content |-> content]

Http404 == [status |-> 404, content |-> <<"Not Found">>]

\* get_config_or_404: the row exists, or the view answers 404
ConfigExists(cfgs, pk) == pk \in DOMAIN cfgs

\* the allowed_values of forbid_unallowed when the caller passes None
AnyValue == {"<any>"}

\* forbid_unallowed(params, param, allowed_values): a 403 response when the
\* parameter is absent or not among the allowed values, else no response
forbid_unallowed(params, param, allowed) ==
    LET value == params[param] IN
    IF value = NoValue
    THEN ControllerResponse(<<"error">>, 403)
    ELSE IF allowed # AnyValue /\ value \notin allowed
         THEN ControllerResponse(<<"error">>, 403)
         ELSE NoResponse

\* send_config(config, request): recompiles when the cached checksum is
\* stale, then returns the archive as an attachment
send_config(cfgs, pk) ==
    LET config == cfgs[pk]
        archive == Render(config.tree)
        fresh == Checksum(archive)
    IN [configs |-> IF config.checksum = fresh
                    THEN cfgs
                    ELSE [cfgs EXCEPT ![pk].checksum = fresh, ![pk].status = "modified"],
        response |-> ControllerResponse(<<"archive", ToString(archive)>>, 200)]

(* ----------------------------- views ----------------------------------- *)
\* checksum that recompiles on every request and marks the Config modified
checksum_recompute(cfgs, pk, GET) ==
    IF ~ConfigExists(cfgs, pk)
    THEN [configs |-> cfgs, response |-> Http404]
    ELSE LET config == cfgs[pk]
             bad == forbid_unallowed(GET, "key", {config.key})
             fresh == Checksum(Render(config.tree))
         IN IF bad # NoResponse
            THEN [configs |-> cfgs, response |-> bad]
            ELSE [configs |-> [cfgs EXCEPT ![pk].checksum = fresh,
                                           ![pk].status = "modified"],
                  response |-> ControllerResponse(fresh, 200)]

\* checksum with a 403 body that echoes the cached checksum
checksum_leaky(cfgs, pk, GET) ==
    IF ~ConfigExists(cfgs, pk)
    THEN [configs |-> cfgs, response |-> Http404]
    ELSE LET config == cfgs[pk]
             bad == forbid_unallowed(GET, "key", {config.key})
         IN IF bad # NoResponse
            THEN [configs |-> cfgs,
                  response |-> ControllerResponse(config.checksum, 403)]
            ELSE [configs |-> cfgs,
                  response |-> ControllerResponse(config.checksum, 200)]

\* checksum(request, pk)
\* checksum view that hashes the stored tree instead of the compiled archive
checksum_of_tree(cfgs, pk, GET) ==
    IF ~ConfigExists(cfgs, pk)
    THEN [configs |-> cfgs, response |-> Http404]
    ELSE LET config == cfgs[pk]
             bad == forbid_unallowed(GET, "key", {config.key})
         IN IF bad # NoResponse
            THEN [configs |-> cfgs, response |-> bad]
            ELSE [configs |-> cfgs,
                  response |-> ControllerResponse(Checksum(config.tree), 200)]

checksum(cfgs, pk, GET) ==
    IF ~ConfigExists(cfgs, pk)
    THEN [configs |-> cfgs, response |-> Http404]
    ELSE LET config == cfgs[pk]
             bad == forbid_unallowed(GET, "key", {config.key})
         IN IF bad # NoResponse
            THEN [configs |-> cfgs, response |-> bad]
            ELSE [configs |-> cfgs,
                  response |-> ControllerResponse(config.checksum, 200)]

\* download_config that marks the Config modified whenever it is sent
download_config_resets(cfgs, pk, GET) ==
    IF ~ConfigExists(cfgs, pk)
    THEN [configs |-> cfgs, response |-> Http404]
    ELSE LET config == cfgs[pk]
             bad == forbid_unallowed(GET, "key", {config.key})
             sent == send_config(cfgs, pk)
         IN IF bad # NoResponse
            THEN [configs |-> cfgs, response |-> bad]
            ELSE [configs |-> [sent.configs EXCEPT ![pk].status = "modified"],
                  response |-> sent.response]

\* download_config that marks the Config applied once it has been sent
download_config_marks_applied(cfgs, pk, GET) ==
    IF ~ConfigExists(cfgs, pk)
    THEN [configs |-> cfgs, response |-> Http404]
    ELSE LET config == cfgs[pk]
             bad == forbid_unallowed(GET, "key", {config.key})
             sent == send_config(cfgs, pk)
         IN IF bad # NoResponse
            THEN [configs |-> cfgs, response |-> bad]
            ELSE [configs |-> [sent.configs EXCEPT ![pk].status = "applied"],
                  response |-> sent.response]

\* download_config that moves the status on each time the Config is sent
download_config_escalates(cfgs, pk, GET) ==
    IF ~ConfigExists(cfgs, pk)
    THEN [configs |-> cfgs, response |-> Http404]
    ELSE LET config == cfgs[pk]
             bad == forbid_unallowed(GET, "key", {config.key})
             sent == send_config(cfgs, pk)
         IN IF bad # NoResponse
            THEN [configs |-> cfgs, response |-> bad]
            ELSE [configs |-> [sent.configs EXCEPT ![pk].status =
                                  IF config.status = "applied" THEN "modified"
                                  ELSE "error"],
                  response |-> sent.response]

\* download_config(request, pk)
download_config(cfgs, pk, GET) ==
    IF ~ConfigExists(cfgs, pk)
    THEN [configs |-> cfgs, response |-> Http404]
    ELSE LET config == cfgs[pk]
             bad == forbid_unallowed(GET, "key", {config.key})
         IN IF bad # NoResponse
            THEN [configs |-> cfgs, response |-> bad]
            ELSE send_config(cfgs, pk)

\* report_status that checks only the status parameter, never the key
report_status_nokey(cfgs, pk, POST) ==
    IF ~ConfigExists(cfgs, pk)
    THEN [configs |-> cfgs, response |-> Http404]
    ELSE LET bad_status == forbid_unallowed(POST, "status", STATUS)
         IN IF bad_status # NoResponse
            THEN [configs |-> cfgs, response |-> bad_status]
            ELSE [configs |-> [cfgs EXCEPT ![pk].status = POST["status"]],
                  response |-> ControllerResponse(
                      <<"report-result: success\n", "current-status: ",
                        POST["status"], "\n">>, 200)]

\* report_status that checks only the key, never the status parameter
report_status_nostatus(cfgs, pk, POST) ==
    IF ~ConfigExists(cfgs, pk)
    THEN [configs |-> cfgs, response |-> Http404]
    ELSE LET bad_key == forbid_unallowed(POST, "key", {cfgs[pk].key})
         IN IF bad_key # NoResponse
            THEN [configs |-> cfgs, response |-> bad_key]
            ELSE [configs |-> [cfgs EXCEPT ![pk].status = POST["status"]],
                  response |-> ControllerResponse(
                      <<"report-result: success\n", "current-status: ",
                        POST["status"], "\n">>, 200)]

\* report_status that answers success without config.save()
report_status_nosave(cfgs, pk, POST) ==
    IF ~ConfigExists(cfgs, pk)
    THEN [configs |-> cfgs, response |-> Http404]
    ELSE LET bad_key == forbid_unallowed(POST, "key", {cfgs[pk].key})
             bad_status == forbid_unallowed(POST, "status", STATUS)
         IN IF bad_key # NoResponse
            THEN [configs |-> cfgs, response |-> bad_key]
            ELSE IF bad_status # NoResponse
            THEN [configs |-> cfgs, response |-> bad_status]
            ELSE [configs |-> cfgs,
                  response |-> ControllerResponse(
                      <<"report-result: success\n", "current-status: ",
                        POST["status"], "\n">>, 200)]

\* report_status that checks the parameters before it looks the Config up
report_status_latelookup(cfgs, pk, POST) ==
    LET bad_status == forbid_unallowed(POST, "status", STATUS)
        bad_key == IF ConfigExists(cfgs, pk)
                   THEN forbid_unallowed(POST, "key", {cfgs[pk].key})
                   ELSE forbid_unallowed(POST, "key", {})
    IN IF bad_key # NoResponse
       THEN [configs |-> cfgs, response |-> bad_key]
       ELSE IF bad_status # NoResponse
       THEN [configs |-> cfgs, response |-> bad_status]
       ELSE [configs |-> [cfgs EXCEPT ![pk].status = POST["status"]],
             response |-> ControllerResponse(
                 <<"report-result: success\n", "current-status: ",
                   POST["status"], "\n">>, 200)]

\* report_status that keeps a Config in status error once it is there
report_status_sticky(cfgs, pk, POST) ==
    IF ~ConfigExists(cfgs, pk)
    THEN [configs |-> cfgs, response |-> Http404]
    ELSE LET bad_key == forbid_unallowed(POST, "key", {cfgs[pk].key})
             bad_status == forbid_unallowed(POST, "status", STATUS)
         IN IF bad_key # NoResponse
            THEN [configs |-> cfgs, response |-> bad_key]
            ELSE IF bad_status # NoResponse \/ cfgs[pk].status = "error"
            THEN [configs |-> cfgs, response |-> ControllerResponse(<<"error">>, 403)]
            ELSE [configs |-> [cfgs EXCEPT ![pk].status = POST["status"]],
                  response |-> ControllerResponse(
                      <<"report-result: success\n", "current-status: ",
                        POST["status"], "\n">>, 200)]

\* report_status that issues the Config a new key with every accepted report
report_status_rekey(cfgs, pk, POST) ==
    IF ~ConfigExists(cfgs, pk)
    THEN [configs |-> cfgs, response |-> Http404]
    ELSE LET bad_key == forbid_unallowed(POST, "key", {cfgs[pk].key})
             bad_status == forbid_unallowed(POST, "status", STATUS)
         IN IF bad_key # NoResponse
            THEN [configs |-> cfgs, response |-> bad_key]
            ELSE IF bad_status # NoResponse
            THEN [configs |-> cfgs, response |-> bad_status]
            ELSE [configs |-> [cfgs EXCEPT ![pk].status = POST["status"],
                                           ![pk].key = "r0tat3d0"],
                  response |-> ControllerResponse(
                      <<"report-result: success\n", "current-status: ",
                        POST["status"], "\n">>, 200)]

\* report_status(request, pk)
report_status(cfgs, pk, POST) ==
    IF ~ConfigExists(cfgs, pk)
    THEN [configs |-> cfgs, response |-> Http404]
    ELSE LET config == cfgs[pk]
             allowed_status == STATUS
             bad_key == forbid_unallowed(POST, "key", {config.key})
             bad_status == forbid_unallowed(POST, "status", allowed_status)
         IN IF bad_key # NoResponse
            THEN [configs |-> cfgs, response |-> bad_key]
            ELSE IF bad_status # NoResponse
            THEN [configs |-> cfgs, response |-> bad_status]
            ELSE [configs |-> [cfgs EXCEPT ![pk].status = POST["status"]],
                  response |-> ControllerResponse(
                      <<"report-result: success\n", "current-status: ",
                        POST["status"], "\n">>, 200)]

\* report_status up to config = get_config_or_404(pk): the row as read, or 404
report_status_get(cfgs, pk) ==
    IF ~ConfigExists(cfgs, pk)
    THEN [found |-> FALSE, config |-> <<>>, response |-> Http404]
    ELSE [found |-> TRUE, config |-> cfgs[pk], response |-> NoResponse]

\* report_status after the Config was read, without config.status = ...
report_status_save_unset(cfgs, pk, POST, config) ==
    LET bad_key == forbid_unallowed(POST, "key", {config.key})
        bad_status == forbid_unallowed(POST, "status", STATUS)
    IN IF bad_key # NoResponse
       THEN [configs |-> cfgs, response |-> bad_key]
       ELSE IF bad_status # NoResponse
       THEN [configs |-> cfgs, response |-> bad_status]
       ELSE [configs |-> [cfgs EXCEPT ![pk] = config],
             response |-> ControllerResponse(
                 <<"report-result: success\n", "current-status: ",
                   POST["status"], "\n">>, 200)]

\* report_status after the Config was read: the parameters are checked
\* against the row read, the status is set on it and config.save() writes
\* every field of that row back
report_status_save(cfgs, pk, POST, config) ==
    LET allowed_status == STATUS
        bad_key == forbid_unallowed(POST, "key", {config.key})
        bad_status == forbid_unallowed(POST, "status", allowed_status)
    IN IF bad_key # NoResponse
       THEN [configs |-> cfgs, response |-> bad_key]
       ELSE IF bad_status # NoResponse
       THEN [configs |-> cfgs, response |-> bad_status]
       ELSE [configs |-> [cfgs EXCEPT ![pk] = [config EXCEPT !.status = POST["status"]]],
             response |-> ControllerResponse(
                 <<"report-result: success\n", "current-status: ",
                   POST["status"], "\n">>, 200)]

\* a change of the Config is saved: the tree is recompiled, and when the
\* checksum differs from the cached one the new checksum is stored and the
\* Config is marked modified
change_config(cfgs, pk, t) ==
    LET fresh == Checksum(Render(t)) IN
    IF fresh = cfgs[pk].checksum
    THEN [cfgs EXCEPT ![pk].tree = t]
    ELSE [cfgs EXCEPT ![pk].tree = t, ![pk].checksum = fresh,
                      ![pk].status = "modified"]

\* Config.objects.create(name=..., backend=...): a new row with a fresh id,
\* a freshly generated key and the default status
CreateConfig(cfgs, id, key, name, backend, tree) ==
    [p \in DOMAIN cfgs \cup {id} |->
        IF p = id
        THEN [key |-> key, status |-> "modified", name |-> name,
              backend |-> backend, tree |-> tree,
              checksum |-> Checksum(Render(tree))]
        ELSE cfgs[p]]

\* register that stores the new Config as already applied
register_applied(cfgs, POST, id, key) ==
    LET bad_secret == forbid_unallowed(POST, "secret", {SHARED_SECRET})
        bad_name == forbid_unallowed(POST, "name", AnyValue)
        bad_backend == forbid_unallowed(POST, "backend", BACKENDS)
        created == CreateConfig(cfgs, id, key, POST["name"], POST["backend"], 0)
    IN IF bad_secret # NoResponse
       THEN [configs |-> cfgs, response |-> bad_secret]
       ELSE IF bad_name # NoResponse
       THEN [configs |-> cfgs, response |-> bad_name]
       ELSE IF bad_backend # NoResponse
       THEN [configs |-> cfgs, response |-> bad_backend]
       ELSE [configs |-> [created EXCEPT ![id].status = "applied"],
             response |-> ControllerResponse(
                 <<"registration-result: success\n", "uuid: ", ToString(id), "\n",
                   "key: ", key, "\n">>, 201)]

\* register that formats the response from request.POST instead of the
\* created Config, so the key line carries the shared secret
register_echo(cfgs, POST, id, key) ==
    LET bad_secret == forbid_unallowed(POST, "secret", {SHARED_SECRET})
        bad_name == forbid_unallowed(POST, "name", AnyValue)
        bad_backend == forbid_unallowed(POST, "backend", BACKENDS)
    IN IF bad_secret # NoResponse
       THEN [configs |-> cfgs, response |-> bad_secret]
       ELSE IF bad_name # NoResponse
       THEN [configs |-> cfgs, response |-> bad_name]
       ELSE IF bad_backend # NoResponse
       THEN [configs |-> cfgs, response |-> bad_backend]
       ELSE [configs |-> CreateConfig(cfgs, id, key, POST["name"], POST["backend"], 0),
             response |-> ControllerResponse(
                 <<"registration-result: success\n", "uuid: ", ToString(id), "\n",
                   "key: ", POST["secret"], "\n">>, 201)]

\* register that never checks the backend parameter
register_nobackend(cfgs, POST, id, key) ==
    LET bad_secret == forbid_unallowed(POST, "secret", {SHARED_SECRET})
        bad_name == forbid_unallowed(POST, "name", AnyValue)
    IN IF bad_secret # NoResponse
       THEN [configs |-> cfgs, response |-> bad_secret]
       ELSE IF bad_name # NoResponse
       THEN [configs |-> cfgs, response |-> bad_name]
       ELSE [configs |-> CreateConfig(cfgs, id, key, POST["name"], POST["backend"], 0),
             response |-> ControllerResponse(
                 <<"registration-result: success\n", "uuid: ", ToString(id), "\n",
                   "key: ", key, "\n">>, 201)]

\* register(request); id and key are the values the store generates
register(cfgs, POST, id, key) ==
    LET allowed_backends == BACKENDS
        bad_secret == forbid_unallowed(POST, "secret", {SHARED_SECRET})
        bad_name == forbid_unallowed(POST, "name", AnyValue)
        bad_backend == forbid_unallowed(POST, "backend", allowed_backends)
    IN IF bad_secret # NoResponse
       THEN [configs |-> cfgs, response |-> bad_secret]
       ELSE IF bad_name # NoResponse
       THEN [configs |-> cfgs, response |-> bad_name]
       ELSE IF bad_backend # NoResponse
       THEN [configs |-> cfgs, response |-> bad_backend]
       ELSE [configs |-> CreateConfig(cfgs, id, key, POST["name"], POST["backend"], 0),
             response |-> ControllerResponse(
                 <<"registration-result: success\n", "uuid: ", ToString(id), "\n",
                   "key: ", key, "\n">>, 201)]

(* --------------------------- template API ------------------------------ *)
\* a text parameter absent from the query string
NoText == <<"<none>">>

\* Python truthiness of a request parameter: neither None nor empty
Truthy(v) == v # NoValue /\ v # ""
TruthyText(v) == v # NoText /\ v # <<>>

NotFound == [status |-> 404, content |-> <<"Not found.">>]
ServerError == [status |-> 500, content |-> <<"Server Error">>]

\* Response(data, status)
Response(data, status) == [status |-> status, content |-> data]

\* template ids a request may name: the fixtures, the two remote templates
\* and one id that is never stored
TemplateIdInputs == {1, 2, 3, 4, 11, 12, 99}
TemplateKeyInputs == {NoValue, "", "s3cr3tkey", "wr0ngkey"}

\* BaseTemplateDetailView.get(request, uuid)
BaseTemplateDetailView_get(tpls, uuid, GET) ==
    LET key == GET.key
        opts == IF Truthy(key)
                THEN [pk |-> uuid, sharing |-> "secret_key", key |-> key]
                ELSE [pk |-> uuid, sharing |-> "public", key |-> NoValue]
        found == /\ opts.pk \in DOMAIN tpls
                 /\ tpls[opts.pk].sharing = opts.sharing
                 /\ Truthy(key) => tpls[opts.pk].key = opts.key
    IN IF found
       THEN Response(<<ToString(uuid), tpls[uuid].sharing, tpls[uuid].key>>, 200)
       ELSE NotFound

\* lower case of a character
Lower(c) ==
    CASE c = "A" -> "a" [] c = "D" -> "d" [] c = "H" -> "h" [] c = "L" -> "l"
      [] c = "N" -> "n" [] c = "R" -> "r" [] OTHER -> c

\* field__icontains=needle: the field contains needle, ignoring case
icontains(field, needle) ==
    \E i \in 0..(Len(field) - Len(needle)) :
        \A j \in 1..Len(needle) : Lower(field[i + j]) = Lower(needle[j])

\* get_queryset that filters by name alone whenever a name is given
get_queryset_nameonly(tpls, GET) ==
    LET name == GET.name
        public == {t \in DOMAIN tpls : tpls[t].sharing = "public"}
    IN IF TruthyText(name)
       THEN {t \in public : icontains(tpls[t].name, name)}
       ELSE public

\* BaseListTemplateView.get_queryset
get_queryset(tpls, GET) ==
    LET name == GET.name
        des == GET.des
        qs == {t \in DOMAIN tpls : tpls[t].sharing = "public"}
    IN IF TruthyText(name) /\ des = NoText
       THEN {t \in qs : icontains(tpls[t].name, name)}
       ELSE IF TruthyText(des) /\ name = NoText
       THEN {t \in qs : icontains(tpls[t].description, des)}
       ELSE IF name # NoText /\ des # NoText
       THEN {t \in qs : /\ icontains(tpls[t].description, des)
                        /\ icontains(tpls[t].name, name)}
       ELSE qs

\* the rows of a queryset in primary-key order
RECURSIVE Serialize(_)
Serialize(qs) ==
    IF qs = {} THEN <<>>
    ELSE LET first == CHOOSE t \in qs : \A u \in qs : t <= u
         IN <<first>> \o Serialize(qs \ {first})

\* BaseListTemplateView.get(request)
BaseListTemplateView_get(tpls, GET) ==
    Response(Serialize(get_queryset(tpls, GET)), 200)

NameInputsApi == {NoText, <<>>, <<"d", "h">>, <<"R", "A">>}
DesInputs == {NoText, <<>>, <<"l", "a", "n">>, <<"x">>}

\* urls the create view may be asked to import from
UrlInputs == {"http://lib/generic", "http://lib/vpn", "http://lib/dup"}

\* get_remote_template_data(import_url): the template the remote library
\* serves at the url; the one at /dup carries the name of a stored template
get_remote_template_data(import_url) ==
    CASE import_url = "http://lib/generic" ->
            [id |-> 11, name |-> <<"g", "e", "n">>, description |-> <<>>,
             sharing |-> "import", key |-> NoValue, type |-> "generic",
             url |-> import_url, vpn |-> [ca |-> 0, cert |-> 0, name |-> NoValue]]
      [] import_url = "http://lib/vpn" ->
            [id |-> 12, name |-> <<"v", "p", "n", "2">>, description |-> <<>>,
             sharing |-> "import", key |-> NoValue, type |-> "vpn",
             url |-> import_url, vpn |-> [ca |-> 1, cert |-> 1, name |-> "vpn1"]]
      [] import_url = "http://lib/dup" ->
            [id |-> 13, name |-> <<"D", "h", "c", "p">>, description |-> <<>>,
             sharing |-> "import", key |-> NoValue, type |-> "generic",
             url |-> import_url, vpn |-> [ca |-> 0, cert |-> 0, name |-> NoValue]]

\* '{0}://{1}'.format(request.META.get('wsgi.url_scheme'), request.get_host())
subscriber_url == "http://testserver"

\* template.full_clean() of a new Template: the id and the name are unused
\* and the name is not blank
TemplateClean(tpls, data) ==
    /\ data.id \notin DOMAIN tpls
    /\ \A t \in DOMAIN tpls : tpls[t].name # data.name
    /\ Len(data.name) > 0

\* template.save() of a new Template
TemplateSave(tpls, data) ==
    [t \in DOMAIN tpls \cup {data.id} |->
        IF t = data.id
        THEN [name |-> data.name, description |-> data.description,
              sharing |-> data.sharing, key |-> data.key, type |-> data.type,
              url |-> data.url, vpn |-> data.vpn.name]
        ELSE tpls[t]]

\* subscribe.delay(template_id, import_url, subscriber_url, subscribe=True)
SubscribeTask(template_id, import_url) ==
    [template |-> template_id, url |-> import_url,
     subscriber |-> subscriber_url, subscribe |-> TRUE]

\* BaseCreateTemplateView.post that saves the template without full_clean
BaseCreateTemplateView_post_noclean(tpls, certs, queue, POST) ==
    LET import_url == POST.url
        data == get_remote_template_data(import_url)
        saved == IF data.type = "vpn"
                 THEN [ca |-> certs.ca \cup {data.vpn.ca},
                       cert |-> certs.cert \cup {data.vpn.cert},
                       vpn |-> certs.vpn \cup {data.vpn.name}]
                 ELSE certs
    IN [templates |-> TemplateSave(tpls, data), x509 |-> saved,
        tasks |-> queue (+) SetToBag({SubscribeTask(data.id, import_url)}),
        response |-> Response(<<>>, 200)]

\* BaseCreateTemplateView.post that queues the task before full_clean
BaseCreateTemplateView_post_eager(tpls, certs, queue, POST) ==
    LET import_url == POST.url
        data == get_remote_template_data(import_url)
        saved == IF data.type = "vpn"
                 THEN [ca |-> certs.ca \cup {data.vpn.ca},
                       cert |-> certs.cert \cup {data.vpn.cert},
                       vpn |-> certs.vpn \cup {data.vpn.name}]
                 ELSE certs
        queued == queue (+) SetToBag({SubscribeTask(data.id, import_url)})
    IN IF TemplateClean(tpls, data)
       THEN [templates |-> TemplateSave(tpls, data), x509 |-> saved,
             tasks |-> queued, response |-> Response(<<>>, 200)]
       ELSE [templates |-> tpls, x509 |-> saved, tasks |-> queued,
             response |-> Response(<<"template_errors", "already exists">>, 500)]

\* BaseCreateTemplateView.post(request) with save_template: Ca, Cert and Vpn
\* of a vpn template are saved, or the stored ones are taken when they do
\* not validate; then the template is validated, saved and the task queued
BaseCreateTemplateView_post(tpls, certs, queue, POST) ==
    LET import_url == POST.url
        data == get_remote_template_data(import_url)
        saved == IF data.type = "vpn"
                 THEN [ca |-> certs.ca \cup {data.vpn.ca},
                       cert |-> certs.cert \cup {data.vpn.cert},
                       vpn |-> certs.vpn \cup {data.vpn.name}]
                 ELSE certs
    IN IF TemplateClean(tpls, data)
       THEN [templates |-> TemplateSave(tpls, data), x509 |-> saved,
             tasks |-> queue (+) SetToBag({SubscribeTask(data.id, import_url)}),
             response |-> Response(<<>>, 200)]
       ELSE [templates |-> tpls, x509 |-> saved, tasks |-> queue,
             response |-> Response(<<"template_errors", "already exists">>, 500)]

\* values the subscribe parameter may carry
SubscribeInputs == {"True", "False", "maybe", NoValue}
SubscriberInputs == {"http://sub1", "http://sub2", NoValue}
SubscriptionTemplateInputs == {1, 99}

\* BooleanField.to_python accepts these values; any other raises ValidationError
BooleanValues == {"True", "t", "1", "False", "f", "0"}
to_python(value) == value \in {"True", "t", "1"}

\* the TemplateSubscription rows of a (template, subscriber) pair
Matching(subs, template, subscriber) ==
    {r \in BagToSet(subs) : r.template = template /\ r.subscriber = subscriber}

\* BaseTemplateSubscriptionView.post that always creates a new record
BaseTemplateSubscriptionView_post_create(tpls, subs, POST) ==
    LET subscribe == IF POST.subscribe = NoValue THEN "False" ELSE POST.subscribe
    IN IF \/ POST.template \notin DOMAIN tpls
          \/ POST.subscriber = NoValue
          \/ subscribe \notin BooleanValues
       THEN [subscriptions |-> subs, response |-> ServerError]
       ELSE [subscriptions |-> subs (+) SetToBag({[template |-> POST.template,
                                                  subscriber |-> POST.subscriber,
                                                  subscribe |-> to_python(subscribe)]}),
             response |-> Response(<<>>, 200)]

\* BaseTemplateSubscriptionView.post that leaves an existing record as it is
BaseTemplateSubscriptionView_post_noupdate(tpls, subs, POST) ==
    LET subscribe == IF POST.subscribe = NoValue THEN "False" ELSE POST.subscribe
        found == IF POST.template \in DOMAIN tpls
                 THEN Matching(subs, POST.template, POST.subscriber) ELSE {}
    IN IF \/ POST.template \notin DOMAIN tpls
          \/ subscribe \notin BooleanValues
          \/ found = {} /\ POST.subscriber = NoValue
       THEN [subscriptions |-> subs, response |-> ServerError]
       ELSE IF found # {}
       THEN [subscriptions |-> subs, response |-> Response(<<>>, 200)]
       ELSE [subscriptions |-> subs (+) SetToBag({[template |-> POST.template,
                                                  subscriber |-> POST.subscriber,
                                                  subscribe |-> to_python(subscribe)]}),
             response |-> Response(<<>>, 200)]

\* BaseTemplateSubscriptionView.post(request): an exception no except clause
\* catches (Template.DoesNotExist, MultipleObjectsReturned, ValidationError)
\* ends the request with a server error and nothing saved
BaseTemplateSubscriptionView_post(tpls, subs, POST) ==
    LET subscribe == IF POST.subscribe = NoValue THEN "False" ELSE POST.subscribe
    IN IF POST.template \notin DOMAIN tpls
       THEN [subscriptions |-> subs, response |-> ServerError]
       ELSE LET found == Matching(subs, POST.template, POST.subscriber)
                copies == BagCardinality([r \in found |-> subs[r]])
            IN IF copies > 1
               THEN [subscriptions |-> subs, response |-> ServerError]
               ELSE IF copies = 1
               THEN LET notification == CHOOSE r \in found : TRUE
                    IN IF subscribe \notin BooleanValues
                       THEN [subscriptions |-> subs, response |-> ServerError]
                       ELSE [subscriptions |->
                                (subs (-) SetToBag({notification}))
                                (+) SetToBag({[notification EXCEPT
                                                 !.subscribe = to_python(subscribe)]}),
                             response |-> Response(<<>>, 200)]
               ELSE IF POST.subscriber = NoValue \/ subscribe \notin BooleanValues
               THEN [subscriptions |-> subs, response |-> ServerError]
               ELSE [subscriptions |->
                        subs (+) SetToBag({[template |-> POST.template,
                                            subscriber |-> POST.subscriber,
                                            subscribe |-> to_python(subscribe)]}),
                     response |-> Response(<<>>, 200)]

\* BaseTemplateSubscriptionView.post up to objects.get(**options): the
\* record of the pair as read, or none
subscription_get(tpls, subs, POST) ==
    IF POST.template \notin DOMAIN tpls
    THEN [pc |-> "done", row |-> <<>>, response |-> ServerError]
    ELSE LET found == Matching(subs, POST.template, POST.subscriber)
             copies == BagCardinality([r \in found |-> subs[r]])
         IN IF copies > 1
            THEN [pc |-> "done", row |-> <<>>, response |-> ServerError]
            ELSE IF copies = 1
            THEN [pc |-> "found", row |-> CHOOSE r \in found : TRUE,
                  response |-> NoResponse]
            ELSE [pc |-> "missing", row |-> <<>>, response |-> NoResponse]

\* BaseTemplateSubscriptionView.post after the lookup: the record read is
\* updated and saved, or a new record is validated and saved
subscription_save(subs, POST, pc, row) ==
    LET subscribe == IF POST.subscribe = NoValue THEN "False" ELSE POST.subscribe
    IN IF subscribe \notin BooleanValues
       THEN [subscriptions |-> subs, response |-> ServerError]
       ELSE IF pc = "found"
       THEN [subscriptions |->
                (subs (-) SetToBag({row}))
                (+) SetToBag({[row EXCEPT !.subscribe = to_python(subscribe)]}),
             response |-> Response(<<>>, 200)]
       ELSE IF POST.subscriber = NoValue
       THEN [subscriptions |-> subs, response |-> ServerError]
       ELSE [subscriptions |->
                subs (+) SetToBag({[template |-> POST.template,
                                    subscriber |-> POST.subscriber,
                                    subscribe |-> to_python(subscribe)]}),
             response |-> Response(<<>>, 200)]

SyncTemplateInputs == {1, 11, 99}

\* BaseTemplateSynchronizationView.post(request)
BaseTemplateSynchronizationView_post(tpls, queue, POST) ==
    LET template_id == POST.template_id
    IN IF template_id \notin DOMAIN tpls
       THEN [tasks |-> queue, response |-> ServerError]
       ELSE [tasks |-> queue (+) SetToBag({SubscribeTask(template_id,
                                                         tpls[template_id].url)}),
             response |-> Response(<<>>, 200)]

(* ---------------------- template composition engine -------------------- *)

\* top-level keys whose value is a sequence; any other key holds a scalar
SequenceKeys == {"interfaces", "radios"}

\* the tree without keys
EmptyTree == [k \in {} |-> <<>>]

\* the templates an operator can apply: config tree and default_values
Catalog ==
    [dhcp  |-> [config |-> [interfaces |-> <<"eth0">>],
                default_values |-> EmptyTree],
     t     |-> [config |-> [interfaces |-> <<"eth0">>],
                default_values |-> EmptyTree],
     wan   |-> [config |-> [interfaces |-> <<"eth1">>],
                default_values |-> [ip |-> "10.0.0.2"]],
     radio |-> [config |-> [radios |-> <<"radio0", "{{ name }}">>],
                default_values |-> [name |-> "tpl-name"]],
     var   |-> [config |-> [general |-> "{{ ip }}"],
                default_values |-> [ip |-> "10.0.0.1"]]]

\* the config trees and contexts a device may have
BaseInputs ==
    {EmptyTree,
     [interfaces |-> <<"lo0">>],
     [interfaces |-> <<"eth0">>],
     [general |-> "{{ id }}", interfaces |-> <<"{{ ip }}", "{{ unknown_var }}">>]}
ContextInputs == {EmptyTree, [ip |-> "192.168.1.1", name |-> "ctx-name"]}

\* the ordered lists of distinct templates a request may name
TemplateLists ==
    {names \in UNION {[1..n -> DOMAIN Catalog] : n \in 0..MaxTemplates} :
        \A i, j \in DOMAIN names : names[i] = names[j] => i = j}

\* the variable a placeholder string names, NoValue for any other string
VarOf(s) ==
    CASE s = "{{ id }}" -> "id"
      [] s = "{{ key }}" -> "key"
      [] s = "{{ name }}" -> "name"
      [] s = "{{ ip }}" -> "ip"
      [] s = "{{ unknown_var }}" -> "unknown_var"
      [] OTHER -> NoValue

\* a string scalar with its placeholder replaced by the context value; a
\* placeholder whose variable the context lacks stays verbatim
Substitute(s, ctx) ==
    IF VarOf(s) # NoValue /\ VarOf(s) \in DOMAIN ctx THEN ctx[VarOf(s)] ELSE s

\* substitution over every string scalar of the tree
evaluate_vars(tree, ctx) ==
    [k \in DOMAIN tree |->
        IF k \in SequenceKeys
        THEN [i \in DOMAIN tree[k] |-> Substitute(tree[k][i], ctx)]
        ELSE Substitute(tree[k], ctx)]

\* the mapping a overlaid with the mapping b
Overlay(a, b) ==
    [v \in DOMAIN a \cup DOMAIN b |-> IF v \in DOMAIN b THEN b[v] ELSE a[v]]

\* the system defaults of a device
SystemDefaults(dev) == [id |-> dev.id, key |-> dev.key, name |-> dev.name]

\* the default_values of the templates overlaid in template order
RECURSIVE OverlayDefaults(_, _)
OverlayDefaults(ctx, names) ==
    IF names = <<>> THEN ctx
    ELSE OverlayDefaults(Overlay(ctx, Catalog[Head(names)].default_values),
                         Tail(names))

\* Context Resolver that lets template defaults override the device context
get_context_defaults_last(dev, names) ==
    OverlayDefaults(Overlay(SystemDefaults(dev), dev.context), names)

\* Context Resolver: system defaults, then each template's default_values in
\* template order, then the device context
get_context(dev, names) ==
    Overlay(OverlayDefaults(SystemDefaults(dev), names), dev.context)

\* Merge that lets the addition overwrite a sequence
Merge_overwrite(base, addition) ==
    [k \in DOMAIN base \cup DOMAIN addition |->
        IF k \in DOMAIN addition THEN addition[k] ELSE base[k]]

\* Merge(base, addition): sequences under the same key are concatenated,
\* scalar keys of the addition override the base
Merge(base, addition) ==
    [k \in DOMAIN base \cup DOMAIN addition |->
        IF k \notin DOMAIN addition THEN base[k]
        ELSE IF k \notin DOMAIN base THEN addition[k]
        ELSE IF k \in SequenceKeys THEN base[k] \o addition[k]
        ELSE addition[k]]

\* the left fold of Merge over the configs of the templates
RECURSIVE MergeAll(_, _)
MergeAll(tree, names) ==
    IF names = <<>> THEN tree
    ELSE MergeAll(Merge(tree, Catalog[Head(names)].config), Tail(names))

\* the addition introduces a key the tree already has: a scalar key, or an
\* element the sequence under the key already holds
Conflicts(tree, addition) ==
    \E k \in DOMAIN tree \cap DOMAIN addition :
        \/ k \notin SequenceKeys
        \/ \E i \in DOMAIN tree[k], j \in DOMAIN addition[k] :
              tree[k][i] = addition[k][j]

\* the config of a source: the device's own config or a template's
SourceConfig(dev, source) ==
    IF source = "device" THEN dev.config ELSE Catalog[source].config

\* the composition that merges without looking for duplicates
clean_templates_silent(dev, tree, sources, names) ==
    [error |-> FALSE, tree |-> MergeAll(tree, names), sources |-> <<>>]

\* the fold of the composition: each template is merged into the tree unless
\* it conflicts with it; a conflict names the first source it is with and
\* the template
RECURSIVE clean_templates(_, _, _, _)
clean_templates(dev, tree, sources, names) ==
    IF names = <<>>
    THEN [error |-> FALSE, tree |-> tree, sources |-> <<>>]
    ELSE LET name == Head(names)
             addition == Catalog[name].config
         IN IF Conflicts(tree, addition)
            THEN LET first == CHOOSE i \in DOMAIN sources :
                                /\ Conflicts(SourceConfig(dev, sources[i]), addition)
                                /\ \A j \in 1..(i - 1) :
                                      ~Conflicts(SourceConfig(dev, sources[j]), addition)
                 IN [error |-> TRUE, tree |-> EmptyTree,
                     sources |-> <<sources[first], name>>]
            ELSE clean_templates(dev, Merge(tree, addition),
                                 Append(sources, name), Tail(names))

\* the composition of a device with the templates named: the merged tree
\* and the tree with the context substituted, or the duplicate error
Compose(dev, names) ==
    LET r == clean_templates(dev, dev.config, <<"device">>, names)
    IN IF r.error
       THEN [error |-> TRUE, sources |-> r.sources,
             merged |-> EmptyTree, rendered |-> EmptyTree]
       ELSE [error |-> FALSE, sources |-> <<>>, merged |-> r.tree,
             rendered |-> evaluate_vars(r.tree, get_context(dev, names))]

\* the config field of a preview request: the device's config as JSON, a
\* text that is no JSON, and JSON whose interfaces value is no interface list
ConfigTexts == {"<device config>", "WRONG", "{\"interfaces\": {\"wrong\": \"wrong\"}}"}

\* a templates field whose ids are no primary keys
WrongTemplateIds == <<"wrong", "totally">>

\* the posted fields of a preview: every template list with the device's
\* config, and each other config with no, one and the malformed template list
PreviewInputs ==
    {[config |-> "<device config>", templates |-> names] :
        names \in TemplateLists \cup {WrongTemplateIds}}
    \cup {[config |-> text, templates |-> names] :
            text \in ConfigTexts \ {"<device config>"},
            names \in {<<>>, <<"dhcp">>, WrongTemplateIds}}

\* json.loads of the config field: the tree, or no tree for a text that is
\* no JSON; "wrong" stands for the mapping given where a list is wanted
json_loads(dev, text) ==
    CASE text = "<device config>" -> [error |-> FALSE, tree |-> dev.config]
      [] text = "WRONG" -> [error |-> TRUE, tree |-> EmptyTree]
      [] OTHER -> [error |-> FALSE, tree |-> [interfaces |-> <<"wrong">>]]

\* Validate(tree): the schema of the dialect wants interfaces under interfaces
Validate(tree) ==
    \A k \in DOMAIN tree \cap SequenceKeys :
        \A i \in DOMAIN tree[k] : tree[k][i] # "wrong"

BadRequest(message) == [status |-> 400, content |-> <<message>>]

\* the preview entry point
preview_view(dev, input) ==
    LET parsed == json_loads(dev, input.config)
        instance == [dev EXCEPT !.config = parsed.tree]
    IN IF parsed.error
       THEN [response |-> BadRequest("config: invalid JSON"),
             composed |-> [merged |-> EmptyTree, rendered |-> EmptyTree]]
       ELSE IF ~Validate(parsed.tree)
       THEN [response |-> BadRequest("config: invalid configuration"),
             composed |-> [merged |-> EmptyTree, rendered |-> EmptyTree]]
       ELSE IF \E i \in DOMAIN input.templates :
                  input.templates[i] \notin DOMAIN Catalog
       THEN [response |-> BadRequest("templates: not a valid id"),
             composed |-> [merged |-> EmptyTree, rendered |-> EmptyTree]]
       ELSE LET r == Compose(instance, input.templates)
            IN [response |->
                   IF r.error
                   THEN [status |-> 200,
                         content |-> <<"djnjc-preformatted error">> \o r.sources]
                   ELSE [status |-> 200, content |-> <<"djnjc-preformatted">>],
                composed |-> [merged |-> r.merged, rendered |-> r.rendered]]

(* --------------------------- device key -------------------------------- *)
\* keys a new Device may be given before validation; "" leaves the field blank
OperatorKeyInputs == KeyPool \cup {"", "my key", "my.key", "my/key", "mykey\n"}

\* the characters of a key
KeyChars(k) ==
    CASE k = "6b1946a1" -> <<"6", "b", "1", "9", "4", "6", "a", "1">>
      [] k = "c0ffee42" -> <<"c", "0", "f", "f", "e", "e", "4", "2">>
      [] k = "" -> <<>>
      [] k = "my key" -> <<"m", "y", " ", "k", "e", "y">>
      [] k = "my.key" -> <<"m", "y", ".", "k", "e", "y">>
      [] k = "my/key" -> <<"m", "y", "/", "k", "e", "y">>
      [] k = "mykey\n" -> <<"m", "y", "k", "e", "y", "\n">>

\* the characters \s matches
Whitespace == {" ", "\t", "\n", "\r", "\f"}

\* RegexValidator(re.compile('^[^\s/\.]+$')): regex.search(value) finds a
\* match; [^\s/\.]+ takes one or more allowed characters from the start and
\* $ matches at the end of the string or just before a newline that ends it
RegexValidator(chars) ==
    \E n \in 1..Len(chars) :
        /\ \A i \in 1..n : chars[i] \notin Whitespace \cup {"/", "."}
        /\ \/ n = Len(chars)
           \/ n = Len(chars) - 1 /\ chars[Len(chars)] = "\n"

\* the key a new Device is stored with: a blank key is replaced by a
\* generated one, any other key must pass the validator and be unused;
\* NoValue when full_clean refuses the Device
CleanKey(cfgs, k, generated) ==
    IF k = "" THEN generated
    ELSE IF ~RegexValidator(KeyChars(k)) THEN NoValue
    ELSE IF k \in {cfgs[p].key : p \in DOMAIN cfgs} THEN NoValue
    ELSE k

(* ----------------------------- state ----------------------------------- *)
\* the request handlers that may run at the same time
Handlers == {1, 2}

\* a handler that has not received its request yet
\* a device that runs no config yet and has reported nothing
IdleAgent == [pc |-> "poll", running |-> <<>>, changes |-> 0, unreported |-> TRUE]

IdleHandler ==
    [pc |-> "idle", pk |-> 0, params |-> <<>>, row |-> <<>>, response |-> NoResponse]

UsedKeys(cfgs) == {cfgs[p].key : p \in DOMAIN cfgs}
FreeIds(cfgs) == Ids \ DOMAIN cfgs

NoRequest == [op |-> "none", pk |-> 0, params |-> <<>>]

\* the Template rows loaded before the first request
FixtureTemplates ==
    [id \in {1, 2, 3, 4} |->
        CASE id = 1 -> [name |-> <<"D", "h", "c", "p">>, description |-> <<"L", "A", "N">>,
                        sharing |-> "public", key |-> NoValue,
                        type |-> "generic", url |-> NoValue, vpn |-> NoValue]
          [] id = 2 -> [name |-> <<"r", "a", "d", "i", "o">>,
                        description |-> <<"w", "l", "a", "n">>,
                        sharing |-> "public", key |-> NoValue,
                        type |-> "generic", url |-> NoValue, vpn |-> NoValue]
          [] id = 3 -> [name |-> <<"d", "h", "c", "p", "2">>,
                        description |-> <<"l", "a", "n">>,
                        sharing |-> "secret_key", key |-> "s3cr3tkey",
                        type |-> "generic", url |-> NoValue, vpn |-> NoValue]
          [] id = 4 -> [name |-> <<"v", "p", "n">>, description |-> <<"l", "a", "n">>,
                        sharing |-> "private", key |-> NoValue,
                        type |-> "generic", url |-> NoValue, vpn |-> NoValue]]

InitApi ==
    /\ templates = FixtureTemplates
    /\ x509 = [ca |-> {}, cert |-> {}, vpn |-> {}]
    /\ subscriptions = EmptyBag
    /\ tasks = EmptyBag

\* a device with the given config and context and no template applied
NewDevice(config, context) ==
    [id |-> "d60ecd62", key |-> "TEST_KEY", name |-> "test-device",
     config |-> config, context |-> context, templates |-> <<>>]

NothingComposed == [merged |-> EmptyTree, rendered |-> EmptyTree]

Init ==
    /\ configs = <<>>
    /\ REGISTRATION_ENABLED = TRUE
    /\ request = NoRequest
    /\ response = NoResponse
    /\ InitApi
    /\ device = NewDevice(EmptyTree, EmptyTree)
    /\ composed = NothingComposed
    /\ inflight = [h \in Handlers |-> IdleHandler]
    /\ agent = IdleAgent

\* the composition engine starts with a device of any config and context
InitCompose ==
    /\ configs = <<>>
    /\ REGISTRATION_ENABLED = TRUE
    /\ request = NoRequest
    /\ response = NoResponse
    /\ InitApi
    /\ device \in {NewDevice(b, c) : b \in BaseInputs, c \in ContextInputs}
    /\ composed = NothingComposed
    /\ inflight = [h \in Handlers |-> IdleHandler]
    /\ agent = IdleAgent

(* ---------------------------- actions ---------------------------------- *)
ChecksumRequest ==
    \E pk \in PkInputs, k \in KeyInputs :
        LET GET == [key |-> k]
            r == checksum(configs, pk, GET)
        IN /\ configs' = r.configs
           /\ response' = r.response
           /\ request' = [op |-> "checksum", pk |-> pk, params |-> GET]
           /\ UNCHANGED <<REGISTRATION_ENABLED, agent, inflight, composeVars, apiVars>>

DownloadRequest ==
    \E pk \in PkInputs, k \in KeyInputs :
        LET GET == [key |-> k]
            r == download_config(configs, pk, GET)
        IN /\ configs' = r.configs
           /\ response' = r.response
           /\ request' = [op |-> "download", pk |-> pk, params |-> GET]
           /\ UNCHANGED <<REGISTRATION_ENABLED, agent, inflight, composeVars, apiVars>>

ReportStatusRequest ==
    \E pk \in PkInputs, k \in KeyInputs, s \in StatusInputs :
        LET POST == [key |-> k, status |-> s]
            r == report_status(configs, pk, POST)
        IN /\ configs' = r.configs
           /\ response' = r.response
           /\ request' = [op |-> "report_status", pk |-> pk, params |-> POST]
           /\ UNCHANGED <<REGISTRATION_ENABLED, agent, inflight, composeVars, apiVars>>

\* the register view defined whatever the setting
register_defined_always == TRUE

\* if REGISTRATION_ENABLED: the register view is defined
register_defined == REGISTRATION_ENABLED

\* a register request: handled by the register view when it is defined,
\* answered 404 when it is not
RegisterRequest ==
    \E sec \in SecretInputs, n \in NameInputs, b \in BackendInputs :
        LET POST == [secret |-> sec, name |-> n, backend |-> b] IN
        IF register_defined
        THEN \E id \in FreeIds(configs), key \in KeyPool \ UsedKeys(configs) :
                LET r == register(configs, POST, id, key)
                IN /\ configs' = r.configs
                   /\ response' = r.response
                   /\ request' = [op |-> "register", pk |-> 0, params |-> POST]
                   /\ UNCHANGED <<REGISTRATION_ENABLED, agent, inflight, composeVars, apiVars>>
        ELSE /\ response' = Http404
             /\ request' = [op |-> "register", pk |-> 0, params |-> POST]
             /\ UNCHANGED <<configs, REGISTRATION_ENABLED, agent, inflight, composeVars, apiVars>>

\* an operator creates a Device with its Config
OperatorCreate ==
    /\ FreeIds(configs) # {}
    /\ \E id \in FreeIds(configs), key \in KeyPool \ UsedKeys(configs),
          t \in Trees :
        /\ configs' = CreateConfig(configs, id, key, "test-device",
                                   "netjsonconfig.OpenWrt", t)
        /\ request' = [op |-> "operator_create", pk |-> id, params |-> <<>>]
        /\ response' = NoResponse
        /\ UNCHANGED <<REGISTRATION_ENABLED, agent, inflight, composeVars, apiVars>>

\* an operator changes config, templates or context of a Config: the
\* composition engine recompiles, and when the checksum differs it stores
\* the new checksum and marks the Config modified
OperatorChange ==
    \E pk \in DOMAIN configs, t \in Trees :
        /\ t # configs[pk].tree
        /\ configs' = change_config(configs, pk, t)
        /\ request' = [op |-> "operator_change", pk |-> pk, params |-> <<>>]
        /\ response' = NoResponse
        /\ UNCHANGED <<REGISTRATION_ENABLED, agent, inflight, composeVars, apiVars>>

\* a Device is created with a given key: full_clean validates the key, save stores it
OperatorCreateWithKey ==
    /\ FreeIds(configs) # {}
    /\ \E id \in FreeIds(configs), k \in OperatorKeyInputs,
          generated \in KeyPool \ UsedKeys(configs), t \in Trees :
        LET key == CleanKey(configs, k, generated) IN
        /\ configs' = IF key = NoValue
                      THEN configs
                      ELSE CreateConfig(configs, id, key, "test-device",
                                        "netjsonconfig.OpenWrt", t)
        /\ request' = [op |-> "operator_create", pk |-> id, params |-> [key |-> k]]
        /\ response' = NoResponse
        /\ UNCHANGED <<REGISTRATION_ENABLED, agent, inflight, composeVars, apiVars>>

TemplateDetailRequest ==
    \E uuid \in TemplateIdInputs, k \in TemplateKeyInputs :
        LET GET == [key |-> k] IN
        /\ response' = BaseTemplateDetailView_get(templates, uuid, GET)
        /\ request' = [op |-> "template_detail", pk |-> uuid, params |-> GET]
        /\ UNCHANGED <<configs, REGISTRATION_ENABLED, agent, inflight, composeVars, apiVars>>

ListTemplatesRequest ==
    \E n \in NameInputsApi, d \in DesInputs :
        LET GET == [name |-> n, des |-> d] IN
        /\ response' = BaseListTemplateView_get(templates, GET)
        /\ request' = [op |-> "list_templates", pk |-> 0, params |-> GET]
        /\ UNCHANGED <<configs, REGISTRATION_ENABLED, agent, inflight, composeVars, apiVars>>

CreateTemplateRequest ==
    \E u \in UrlInputs :
        LET POST == [url |-> u]
            r == BaseCreateTemplateView_post(templates, x509, tasks, POST)
        IN /\ BagCardinality(r.tasks) <= MaxTasks
           /\ templates' = r.templates
           /\ x509' = r.x509
           /\ tasks' = r.tasks
           /\ response' = r.response
           /\ request' = [op |-> "create_template", pk |-> 0, params |-> POST]
           /\ UNCHANGED <<configs, REGISTRATION_ENABLED, agent, inflight, composeVars, subscriptions>>

SubscriptionRequest ==
    \E t \in SubscriptionTemplateInputs, sub \in SubscriberInputs, f \in SubscribeInputs :
        LET POST == [template |-> t, subscriber |-> sub, subscribe |-> f]
            r == BaseTemplateSubscriptionView_post(templates, subscriptions, POST)
        IN /\ subscriptions' = r.subscriptions
           /\ response' = r.response
           /\ request' = [op |-> "subscription", pk |-> t, params |-> POST,
                          had |-> IF t \in DOMAIN templates
                                  THEN Cardinality(Matching(subscriptions, t, sub))
                                  ELSE 0]
           /\ UNCHANGED <<configs, REGISTRATION_ENABLED, agent, inflight, composeVars, templates, x509, tasks>>

SynchronizeRequest ==
    \E t \in SyncTemplateInputs :
        LET POST == [template_id |-> t]
            r == BaseTemplateSynchronizationView_post(templates, tasks, POST)
        IN /\ BagCardinality(r.tasks) <= MaxTasks
           /\ tasks' = r.tasks
           /\ response' = r.response
           /\ request' = [op |-> "synchronize", pk |-> t, params |-> POST]
           /\ UNCHANGED <<configs, REGISTRATION_ENABLED, agent, inflight, composeVars, templates, x509, subscriptions>>

\* the worker takes a queued subscribe task and notifies the remote library
RunSubscribeTask ==
    \E task \in BagToSet(tasks) :
        /\ tasks' = tasks (-) SetToBag({task})
        /\ request' = [op |-> "run_task", pk |-> task.template, params |-> <<>>]
        /\ response' = NoResponse
        /\ UNCHANGED <<configs, REGISTRATION_ENABLED, agent, inflight, composeVars, templates, x509, subscriptions>>

\* the operator saves the device with the templates named: the templates
\* field is cleaned by composing, a duplicate is a field error
ChangeDevice ==
    \E names \in TemplateLists :
        LET r == Compose(device, names)
        IN /\ request' = [op |-> "change_device", pk |-> 0,
                          params |-> [templates |-> names]]
           /\ IF r.error
              THEN /\ response' = [status |-> 200,
                                   content |-> <<"errors field-templates">> \o r.sources]
                   /\ UNCHANGED composeVars
              ELSE /\ response' = [status |-> 302, content |-> <<>>]
                   /\ device' = [device EXCEPT !.templates = names]
                   /\ composed' = [merged |-> r.merged, rendered |-> r.rendered]
           /\ UNCHANGED <<configs, REGISTRATION_ENABLED, agent, inflight, apiVars>>

\* the operator previews the device: the posted config is parsed and
\* validated and the template ids are looked up, each failure answered 400;
\* then the device is composed with the templates, a duplicate shown as an
\* error preview; nothing is stored
PreviewDevice ==
    \E input \in PreviewInputs :
        LET r == preview_view(device, input)
        IN /\ request' = [op |-> "preview_device", pk |-> 0, params |-> input]
           /\ response' = r.response
           /\ composed' = r.composed
           /\ UNCHANGED <<configs, REGISTRATION_ENABLED, agent, inflight, apiVars, device>>

\* values the parameters of a concurrent report-status request may carry
RaceKeyInputs == {"6b1946a1", NoValue}
RaceStatusInputs == {"applied", "error", "running"}

\* a handler receives a report-status request and reads the Config
ReportStatusGet(h) ==
    /\ inflight[h].pc = "idle"
    /\ \E pk \in {1, 3}, k \in RaceKeyInputs, s \in RaceStatusInputs :
        LET POST == [key |-> k, status |-> s]
            r == report_status_get(configs, pk)
        IN /\ inflight' = [inflight EXCEPT ![h] =
                             [pc |-> IF r.found THEN "read" ELSE "done",
                              pk |-> pk, params |-> POST, row |-> r.config,
                              response |-> r.response]]
           /\ request' = [op |-> "report_status_get", pk |-> pk, params |-> POST,
                          handler |-> h]
           /\ response' = r.response
           /\ UNCHANGED <<configs, REGISTRATION_ENABLED, agent, composeVars, apiVars>>

\* the handler checks the parameters, sets the status and saves the Config
ReportStatusSave(h) ==
    /\ inflight[h].pc = "read"
    /\ LET r == report_status_save(configs, inflight[h].pk, inflight[h].params,
                                   inflight[h].row)
       IN /\ configs' = r.configs
          /\ inflight' = [inflight EXCEPT ![h].pc = "done", ![h].row = <<>>,
                                          ![h].response = r.response]
          /\ request' = [op |-> "report_status_save", pk |-> inflight[h].pk,
                         params |-> inflight[h].params, handler |-> h,
                         stale |-> inflight[h].row # configs[inflight[h].pk]]
          /\ response' = r.response
          /\ UNCHANGED <<REGISTRATION_ENABLED, agent, composeVars, apiVars>>

\* values the parameters of a concurrent subscription request may carry
RaceSubscriberInputs == {"http://sub1", "http://sub2"}
RaceSubscribeInputs == {"True", "False"}

\* a handler receives a subscribe/unsubscribe request and looks the record
\* of the pair up
SubscriptionGet(h) ==
    /\ inflight[h].pc = "idle"
    /\ \E sub \in RaceSubscriberInputs, f \in RaceSubscribeInputs :
        LET POST == [template |-> 1, subscriber |-> sub, subscribe |-> f]
            r == subscription_get(templates, subscriptions, POST)
        IN /\ inflight' = [inflight EXCEPT ![h] =
                             [pc |-> r.pc, pk |-> 1, params |-> POST,
                              row |-> r.row, response |-> r.response]]
           /\ request' = [op |-> "subscription_get", pk |-> 1, params |-> POST,
                          handler |-> h]
           /\ response' = r.response
           /\ UNCHANGED <<configs, REGISTRATION_ENABLED, agent, composeVars, apiVars>>

\* the handler updates the record it found or creates the record it missed
SubscriptionSave(h) ==
    /\ inflight[h].pc \in {"found", "missing"}
    /\ LET r == subscription_save(subscriptions, inflight[h].params,
                                  inflight[h].pc, inflight[h].row)
       IN /\ subscriptions' = r.subscriptions
          /\ inflight' = [inflight EXCEPT ![h].pc = "done", ![h].row = <<>>,
                                          ![h].response = r.response]
          /\ request' = [op |-> "subscription_save", pk |-> 1,
                         params |-> inflight[h].params, handler |-> h]
          /\ response' = r.response
          /\ UNCHANGED <<configs, REGISTRATION_ENABLED, agent, composeVars, templates,
                         x509, tasks>>

Next ==
    \/ ChecksumRequest
    \/ DownloadRequest
    \/ ReportStatusRequest
    \/ RegisterRequest
    \/ OperatorCreate
    \/ OperatorChange

Spec == Init /\ [][Next]_vars

\* the ways a Device and its key come into being
NextKeys ==
    \/ RegisterRequest
    \/ OperatorCreate
    \/ OperatorCreateWithKey

SpecKeys == Init /\ [][NextKeys]_vars

\* the views of the template API and the task worker
NextApi ==
    \/ TemplateDetailRequest
    \/ ListTemplatesRequest
    \/ CreateTemplateRequest
    \/ SubscriptionRequest
    \/ SynchronizeRequest
    \/ RunSubscribeTask

SpecApi == Init /\ [][NextApi]_vars

\* the operator-facing entry points of the composition engine
NextCompose == ChangeDevice \/ PreviewDevice

SpecCompose == InitCompose /\ [][NextCompose]_vars

\* one Config exists when the concurrent requests arrive
InitRace ==
    /\ configs = CreateConfig(<<>>, 1, "6b1946a1", "test-device",
                              "netjsonconfig.OpenWrt", 0)
    /\ REGISTRATION_ENABLED = TRUE
    /\ request = NoRequest
    /\ response = NoResponse
    /\ InitApi
    /\ device = NewDevice(EmptyTree, EmptyTree)
    /\ composed = NothingComposed
    /\ inflight = [h \in Handlers |-> IdleHandler]
    /\ agent = IdleAgent

\* report-status requests handled concurrently, each in two steps, while an
\* operator changes the Config
NextRace ==
    \/ \E h \in Handlers : ReportStatusGet(h)
    \/ \E h \in Handlers : ReportStatusSave(h)
    \/ OperatorChange

SpecRace == InitRace /\ [][NextRace]_vars

\* subscribe/unsubscribe requests handled concurrently, each in two steps
NextSubscriptionRace ==
    \/ \E h \in Handlers : SubscriptionGet(h)
    \/ \E h \in Handlers : SubscriptionSave(h)

SpecSubscriptionRace == Init /\ [][NextSubscriptionRace]_vars

\* registration is switched off in the settings
InitClosed ==
    /\ configs = <<>>
    /\ REGISTRATION_ENABLED = FALSE
    /\ request = NoRequest
    /\ response = NoResponse
    /\ InitApi
    /\ device = NewDevice(EmptyTree, EmptyTree)
    /\ composed = NothingComposed
    /\ inflight = [h \in Handlers |-> IdleHandler]
    /\ agent = IdleAgent

SpecClosed == InitClosed /\ [][Next]_vars

(* ------------------------- the polling device --------------------------- *)

\* the checksum the device computes of an archive it downloaded
ArchiveChecksum(content) ==
    LET archive == CHOOSE a \in {Render(t) : t \in Trees} : ToString(a) = content[2]
    IN Checksum(archive)

\* the device asks for the checksum with its key and compares it with the
\* checksum of the config it runs
DevicePoll ==
    /\ agent.pc = "poll"
    /\ LET GET == [key |-> configs[1].key]
           r == checksum(configs, 1, GET)
       IN /\ configs' = r.configs
          /\ response' = r.response
          /\ request' = [op |-> "checksum", pk |-> 1, params |-> GET]
          /\ agent' = [agent EXCEPT !.pc =
                          IF r.response.status = 200 /\ r.response.content # agent.running
                          THEN "download" ELSE "poll"]
          /\ UNCHANGED <<REGISTRATION_ENABLED, inflight, composeVars, apiVars>>

\* the device downloads the archive and runs it
DeviceDownload ==
    /\ agent.pc = "download"
    /\ LET GET == [key |-> configs[1].key]
           r == download_config(configs, 1, GET)
       IN /\ configs' = r.configs
          /\ response' = r.response
          /\ request' = [op |-> "download_config", pk |-> 1, params |-> GET]
          /\ agent' = IF r.response.status = 200
                      THEN [agent EXCEPT !.pc = "report",
                                         !.running = ArchiveChecksum(r.response.content)]
                      ELSE [agent EXCEPT !.pc = "poll"]
          /\ UNCHANGED <<REGISTRATION_ENABLED, inflight, composeVars, apiVars>>

\* the device reports the status applied
DeviceReport ==
    /\ agent.pc = "report"
    /\ LET POST == [key |-> configs[1].key, status |-> "applied"]
           r == report_status(configs, 1, POST)
       IN /\ configs' = r.configs
          /\ response' = r.response
          /\ request' = [op |-> "report_status", pk |-> 1, params |-> POST]
          /\ agent' = [agent EXCEPT !.pc = "poll",
                                    !.unreported = IF r.response.status = 200
                                                   THEN FALSE ELSE @]
          /\ UNCHANGED <<REGISTRATION_ENABLED, inflight, composeVars, apiVars>>

DeviceStep == DevicePoll \/ DeviceDownload \/ DeviceReport

\* the operator changes the Config, MaxChanges times at most
OperatorChangeLoop ==
    /\ agent.changes < MaxChanges
    /\ \E t \in Trees :
        /\ t # configs[1].tree
        /\ configs' = change_config(configs, 1, t)
        /\ agent' = [agent EXCEPT !.changes = @ + 1,
                                  !.unreported =
                                      @ \/ Checksum(Render(t)) # configs[1].checksum]
        /\ request' = [op |-> "operator_change", pk |-> 1, params |-> <<>>]
        /\ response' = NoResponse
        /\ UNCHANGED <<REGISTRATION_ENABLED, inflight, composeVars, apiVars>>

\* one registered device and its Config
InitLoop ==
    /\ configs = CreateConfig(<<>>, 1, "6b1946a1", "test-device",
                              "netjsonconfig.OpenWrt", 0)
    /\ REGISTRATION_ENABLED = TRUE
    /\ request = NoRequest
    /\ response = NoResponse
    /\ InitApi
    /\ device = NewDevice(EmptyTree, EmptyTree)
    /\ composed = NothingComposed
    /\ inflight = [h \in Handlers |-> IdleHandler]
    /\ agent = IdleAgent

NextLoop ==
    \/ DevicePoll
    \/ DeviceDownload
    \/ DeviceReport
    \/ OperatorChangeLoop

\* the device repeats its loop for ever: its steps are taken fairly
SpecLoop == InitLoop /\ [][NextLoop]_vars /\ WF_vars(DeviceStep)

TypeOK ==
    /\ DOMAIN configs \subseteq Ids
    /\ \A p \in DOMAIN configs :
        /\ configs[p].key \in KeyPool
        /\ configs[p].tree \in Trees
        /\ configs[p].backend \in BACKENDS

(* ------------------------- properties ---------------------------------- *)
ProtocolOps == {"checksum", "download", "report_status"}

\* the view a protocol request is routed to
View(op, cfgs, pk, k, s) ==
    IF op = "checksum" THEN checksum(cfgs, pk, [key |-> k])
    ELSE IF op = "download" THEN download_config(cfgs, pk, [key |-> k])
    ELSE report_status(cfgs, pk, [key |-> k, status |-> s])

\* C1: a checksum, download or report-status request for an existing device
\* whose key is wrong or missing is answered 403 and leaves every stored
\* row (status, checksum, key) as it was.
C1_KeyEnforced ==
    [][ ( /\ request'.op \in ProtocolOps
          /\ request'.pk \in DOMAIN configs
          /\ request'.params.key # configs[request'.pk].key )
        => ( /\ response'.status = 403
             /\ configs' = configs ) ]_vars

\* a report-status carrying an allowed status and another device's key (or
\* none) was refused while the stored status differs from the reported one
C1_Witness ==
    /\ request.op = "report_status"
    /\ request.pk \in DOMAIN configs
    /\ request.params.key # configs[request.pk].key
    /\ request.params.status \in STATUS
    /\ request.params.status # configs[request.pk].status
    /\ response.status = 403

\* C2 (as stated): a request with a wrong or missing key gets the same
\* response outcome whether the requested device id exists or not.
C2_NoExistenceLeak ==
    \A op \in ProtocolOps, k \in KeyInputs, s \in StatusInputs :
        \A pk1 \in DOMAIN configs, pk2 \in PkInputs \ DOMAIN configs :
            k # configs[pk1].key =>
                View(op, configs, pk1, k, s).response.status
                    = View(op, configs, pk2, k, s).response.status

\* C2 (amended): a request with a wrong or missing key is answered 403 with
\* one and the same response for every existing device, whatever that
\* device's stored key, status and checksum, and 404 for an id that does not
\* exist: only the existence of the id is disclosed.
C2_OnlyExistenceDisclosed ==
    \A op \in ProtocolOps, k \in KeyInputs, s \in StatusInputs :
        /\ \A pk1 \in DOMAIN configs, pk2 \in DOMAIN configs :
               (k # configs[pk1].key /\ k # configs[pk2].key) =>
                   /\ View(op, configs, pk1, k, s).response.status = 403
                   /\ View(op, configs, pk1, k, s).response
                          = View(op, configs, pk2, k, s).response
        /\ \A pk \in PkInputs \ DOMAIN configs :
               View(op, configs, pk, k, s).response.status = 404

\* two devices with different status and checksum are stored and a request
\* with a missing key has just been refused
C2_Witness ==
    /\ request.op \in ProtocolOps
    /\ request.pk \in DOMAIN configs
    /\ request.params.key = NoValue
    /\ response.status = 403
    /\ \E p \in DOMAIN configs :
          /\ configs[p].checksum # configs[request.pk].checksum
          /\ configs[p].status # configs[request.pk].status

\* C3: a checksum, download or report-status request for a device id that
\* does not exist is answered 404, whatever key and status it carries, and
\* changes no stored row.
C3_UnknownDevice404 ==
    [][ ( /\ request'.op \in ProtocolOps
          /\ request'.pk \notin DOMAIN configs )
        => ( /\ response'.status = 404
             /\ configs' = configs ) ]_vars

\* a report-status for an unknown id carrying a key that some device really
\* has and an allowed status was answered 404
C3_Witness ==
    /\ request.op = "report_status"
    /\ request.pk \notin DOMAIN configs
    /\ request.params.key \in UsedKeys(configs)
    /\ request.params.status = "applied"
    /\ response.status = 404

\* C4: a report-status request with the correct key but a status outside
\* {modified, applied, error}, or with no status, is answered 403 and the
\* stored rows are unchanged.
C4_StatusAllowList ==
    [][ ( /\ request'.op = "report_status"
          /\ request'.pk \in DOMAIN configs
          /\ request'.params.key = configs[request'.pk].key
          /\ request'.params.status \notin STATUS )
        => ( /\ response'.status = 403
             /\ configs' = configs ) ]_vars

\* a report-status with the right key and the unknown status "running" was
\* refused
C4_Witness ==
    /\ request.op = "report_status"
    /\ request.pk \in DOMAIN configs
    /\ request.params.key = configs[request.pk].key
    /\ request.params.status = "running"
    /\ response.status = 403

\* C5: a report-status request with the correct key and an allowed status s
\* stores s as the status of that Config, leaves everything else as it was,
\* and answers 200 with a confirmation naming s, from every prior status.
C5_ReportStored ==
    [][ ( /\ request'.op = "report_status"
          /\ request'.pk \in DOMAIN configs
          /\ request'.params.key = configs[request'.pk].key
          /\ request'.params.status \in STATUS )
        => ( /\ response'.status = 200
             /\ response'.content = <<"report-result: success\n", "current-status: ",
                                      request'.params.status, "\n">>
             /\ configs' = [configs EXCEPT
                               ![request'.pk].status = request'.params.status] ) ]_vars

\* an accepted report of status error is stored and confirmed
C5_Witness ==
    /\ request.op = "report_status"
    /\ request.pk \in DOMAIN configs
    /\ request.params.key = configs[request.pk].key
    /\ request.params.status = "error"
    /\ response.status = 200
    /\ configs[request.pk].status = "error"

\* C6: every stored Config has a status among modified, applied, error, and
\* the Config a register request has just created has status modified.
C6_StatusDomain ==
    /\ \A p \in DOMAIN configs : configs[p].status \in {"modified", "applied", "error"}
    /\ (request.op = "register" /\ response.status = 201) =>
           \E p \in DOMAIN configs :
               /\ response.content[3] = ToString(p)
               /\ configs[p].status = "modified"

\* a register request has created a Config next to one whose status a
\* device has already reported
C6_Witness ==
    /\ request.op = "register"
    /\ response.status = 201
    /\ \E p \in DOMAIN configs : configs[p].status = "applied"

\* C7: the status of a Config becomes applied only in a step that is an
\* accepted report-status request for that Config (correct key) carrying
\* status applied.
C7_AppliedOnlyByReport ==
    [][ \A p \in DOMAIN configs' :
            ( /\ configs'[p].status = "applied"
              /\ (p \in DOMAIN configs => configs[p].status # "applied") )
            => ( /\ p \in DOMAIN configs
                 /\ request'.op = "report_status"
                 /\ request'.pk = p
                 /\ request'.params.key = configs[p].key
                 /\ request'.params.status = "applied"
                 /\ response'.status = 200 ) ]_vars

\* an accepted report of status applied has just been stored
C7_Witness ==
    /\ request.op = "report_status"
    /\ request.pk \in DOMAIN configs
    /\ request.params.status = "applied"
    /\ response.status = 200
    /\ configs[request.pk].status = "applied"

\* C8: an authorized checksum request answers 200 with exactly the checksum
\* cached for that Config and changes no stored row.
C8_ChecksumCached ==
    [][ ( /\ request'.op = "checksum"
          /\ request'.pk \in DOMAIN configs
          /\ request'.params.key = configs[request'.pk].key )
        => ( /\ response'.status = 200
             /\ response'.content = configs[request'.pk].checksum
             /\ configs' = configs ) ]_vars

\* an authorized checksum request was answered for a Config whose status is
\* applied and whose tree an operator has set
C8_Witness ==
    /\ request.op = "checksum"
    /\ request.pk \in DOMAIN configs
    /\ request.params.key = configs[request.pk].key
    /\ response.status = 200
    /\ response.content = configs[request.pk].checksum
    /\ configs[request.pk].status = "applied"
    /\ configs[request.pk].tree = MaxTree

\* C9: a checksum or download request, authorized or not, leaves every
\* Config whose status is applied with status applied and with the same
\* cached checksum.
C9_AppliedStable ==
    [][ request'.op \in {"checksum", "download"}
        => \A p \in DOMAIN configs :
               configs[p].status = "applied" =>
                   /\ p \in DOMAIN configs'
                   /\ configs'[p].status = "applied"
                   /\ configs'[p].checksum = configs[p].checksum ]_vars

\* an authorized download of an applied Config was served
C9_Witness ==
    /\ request.op = "download"
    /\ request.pk \in DOMAIN configs
    /\ request.params.key = configs[request.pk].key
    /\ response.status = 200
    /\ configs[request.pk].status = "applied"

\* C10: a register request with the shared secret, a name and an allowed
\* backend answers 201 and creates exactly one new Config, with a key no
\* other Config has; the id and key in the response are those of the new
\* Config; the request carries no device key.
C10_RegisterCreates ==
    [][ ( /\ request'.op = "register"
          /\ request'.params.secret = SHARED_SECRET
          /\ request'.params.name # NoValue
          /\ request'.params.backend \in BACKENDS )
        => ( /\ response'.status = 201
             /\ "key" \notin DOMAIN request'.params
             /\ \E id \in DOMAIN configs' \ DOMAIN configs :
                   /\ DOMAIN configs' = DOMAIN configs \cup {id}
                   /\ \A p \in DOMAIN configs : configs'[p] = configs[p]
                   /\ configs'[id].key \notin UsedKeys(configs)
                   /\ configs'[id].name = request'.params.name
                   /\ configs'[id].backend = request'.params.backend
                   /\ response'.content[3] = ToString(id)
                   /\ response'.content[6] = configs'[id].key ) ]_vars

\* a second device has registered: two Configs are stored and the response
\* carries the key of the new one
C10_Witness ==
    /\ request.op = "register"
    /\ response.status = 201
    /\ Cardinality(DOMAIN configs) = 2
    /\ \E p \in DOMAIN configs :
          /\ response.content[3] = ToString(p)
          /\ response.content[6] = configs[p].key

\* C11: a register request whose secret is not the shared secret, or whose
\* backend is not in the allow-list, is answered 403 and creates nothing; a
\* wrong secret is refused whatever name and backend come with it.
C11_RegisterRefused ==
    [][ ( /\ request'.op = "register"
          /\ \/ request'.params.secret # SHARED_SECRET
             \/ request'.params.backend \notin {"netjsonconfig.OpenWrt",
                                               "netjsonconfig.OpenWisp"} )
        => ( /\ response'.status = 403
             /\ configs' = configs ) ]_vars

\* a register request with the shared secret and a name but a backend that
\* is not configured was refused
C11_Witness ==
    /\ request.op = "register"
    /\ request.params.secret = SHARED_SECRET
    /\ request.params.name # NoValue
    /\ request.params.backend = "netjsonconfig.Unknown"
    /\ response.status = 403

\* C12: every device key is non-empty, contains no whitespace, dot or
\* slash, and no two devices have the same key.
C12_KeysWellFormed ==
    /\ \A p \in DOMAIN configs :
          /\ Len(KeyChars(configs[p].key)) > 0
          /\ \A i \in 1..Len(KeyChars(configs[p].key)) :
                KeyChars(configs[p].key)[i] \notin
                    {" ", "\t", "\n", "\r", "\f", ".", "/"}
    /\ \A p \in DOMAIN configs, q \in DOMAIN configs :
          p # q => configs[p].key # configs[q].key

(* ------------------------- template subscriptions ------------------------ *)

\* C13: after any sequence of subscribe/unsubscribe requests there is at most
\* one TemplateSubscription record per (template, subscriber) pair
C13_OneRecordPerPair ==
    \A r \in BagToSet(subscriptions) :
        /\ CopiesIn(r, subscriptions) = 1
        /\ \A q \in BagToSet(subscriptions) :
              (q.template = r.template /\ q.subscriber = r.subscriber) => q = r

\* a request for a pair that already had a record was answered 200 and the
\* pair still has one record
C13_Witness ==
    /\ request.op = "subscription"
    /\ request.had = 1
    /\ response.status = 200
    /\ Cardinality(Matching(subscriptions, request.params.template,
                            request.params.subscriber)) = 1

\* C14: a subscribe/unsubscribe request answered 200 leaves the record of its
\* pair with the posted flag, created or updated, and every record of another
\* pair as it was
C14_FlagStored ==
    [][(request'.op = "subscription" /\ response'.status = 200) =>
        LET P == request'.params
            own(r) == r.template = P.template /\ r.subscriber = P.subscriber
        IN /\ \E r \in BagToSet(subscriptions') :
                 /\ own(r)
                 /\ r.subscribe = (P.subscribe = "True")
           /\ \A r \in BagToSet(subscriptions') :
                 own(r) => r.subscribe = (P.subscribe = "True")
           /\ \A r \in BagToSet(subscriptions) \cup BagToSet(subscriptions') :
                 ~own(r) => CopiesIn(r, subscriptions') = CopiesIn(r, subscriptions)
      ]_vars

\* an unsubscribe request changed the existing record of its pair while
\* another pair stays subscribed
C14_Witness ==
    /\ request.op = "subscription"
    /\ request.had = 1
    /\ response.status = 200
    /\ request.params.subscribe = "False"
    /\ \E r \in BagToSet(subscriptions) :
          /\ r.template = request.params.template
          /\ r.subscriber = request.params.subscriber
          /\ r.subscribe = FALSE
    /\ \E r \in BagToSet(subscriptions) :
          /\ r.subscriber # request.params.subscriber
          /\ r.subscribe = TRUE

(* ----------------------------- template detail --------------------------- *)

\* the sharing rule of the template detail view: a stored template that is
\* public, or shared by secret key and asked for with that key
SharingRuleMet(tpls, uuid, key) ==
    /\ uuid \in DOMAIN tpls
    /\ \/ tpls[uuid].sharing = "public"
       \/ /\ tpls[uuid].sharing = "secret_key"
          /\ key # NoValue
          /\ key = tpls[uuid].key

\* C15: template detail answers 200 with the template when the template is
\* public or the key parameter matches a secret_key-shared template, and in
\* every other case answers 404 without template data
C15_DetailSharing ==
    request.op = "template_detail" =>
        IF SharingRuleMet(templates, request.pk, request.params.key)
        THEN /\ response.status = 200
             /\ response.content[1] = ToString(request.pk)
        ELSE response = NotFound

(* ------------------------------ template list ---------------------------- *)

\* the text contains the given text, letter case ignored
ContainsText(text, given) ==
    \E i \in 1..(Len(text) + 1) :
        /\ i + Len(given) - 1 <= Len(text)
        /\ [j \in 1..Len(given) |-> Lower(text[i + j - 1])]
           = [j \in 1..Len(given) |-> Lower(given[j])]

\* C16: the template list holds exactly the public templates whose name
\* contains the name parameter and whose description contains the des
\* parameter, each filter applied when it is given, each template once
C16_ListFiltered ==
    request.op = "list_templates" =>
        LET P == request.params
            listed == {response.content[i] : i \in 1..Len(response.content)}
        IN /\ response.status = 200
           /\ listed = {t \in DOMAIN templates :
                          /\ templates[t].sharing = "public"
                          /\ P.name # NoText => ContainsText(templates[t].name, P.name)
                          /\ P.des # NoText =>
                                ContainsText(templates[t].description, P.des)}
           /\ Cardinality(listed) = Len(response.content)

\* both filters were given: the one public template matching both is listed,
\* the secret_key template matching both is not
C16_Witness ==
    /\ request.op = "list_templates"
    /\ request.params = [name |-> <<"d", "h">>, des |-> <<"l", "a", "n">>]
    /\ response.content = <<1>>
    /\ templates[3].sharing = "secret_key"
    /\ ContainsText(templates[3].name, request.params.name)
    /\ ContainsText(templates[3].description, request.params.des)

(* ------------------------- create external template --------------------- *)

\* the stored templates that carry the given name
Named(tpls, name) == {t \in DOMAIN tpls : tpls[t].name = name}

\* C17: a create-external-template request whose template is already stored
\* answers 500 with template_errors and stores nothing, a request that
\* validates answers 200 and stores exactly one template; either way exactly
\* one template carries the name afterwards
C17_CreateOnce ==
    [][request'.op = "create_template" =>
        LET data == get_remote_template_data(request'.params.url)
            clash == Named(templates, data.name) # {} \/ data.id \in DOMAIN templates
        IN /\ clash =>
                /\ response'.status = 500
                /\ Len(response'.content) > 0
                /\ response'.content[1] = "template_errors"
                /\ templates' = templates
           /\ ~clash =>
                /\ response'.status = 200
                /\ Cardinality(DOMAIN templates' \ DOMAIN templates) = 1
                /\ \A t \in DOMAIN templates : templates'[t] = templates[t]
           /\ Cardinality(Named(templates', data.name)) = 1
      ]_vars

\* the vpn template was imported before and the same request, repeated, was
\* answered 500: the template is still stored once
C17_Witness ==
    /\ request.op = "create_template"
    /\ request.params.url = "http://lib/vpn"
    /\ response.status = 500
    /\ response.content[1] = "template_errors"
    /\ 12 \in DOMAIN templates
    /\ Cardinality(Named(templates, templates[12].name)) = 1

(* ------------------------- template composition -------------------------- *)

ComposeOps == {"change_device", "preview_device"}

\* the config of the i-th source of the last composition: the device's own
\* config (0), then the templates named, in order
SourceAt(i) ==
    IF i = 0 THEN device.config ELSE Catalog[request.params.templates[i]].config

\* two sources of the last composition introduce the same key: a scalar key
\* both define or an element both put into the same sequence
SameKeyTwice(i, j) ==
    \E k \in DOMAIN SourceAt(i) \cap DOMAIN SourceAt(j) :
        \/ k \notin SequenceKeys
        \/ {SourceAt(i)[k][p] : p \in DOMAIN SourceAt(i)[k]}
           \cap {SourceAt(j)[k][p] : p \in DOMAIN SourceAt(j)[k]} # {}

\* the last composition was answered with the duplicate error
DuplicateReported ==
    /\ response.status = 200
    /\ Len(response.content) = 3
    /\ response.content[1] = IF request.op = "change_device"
                             THEN "errors field-templates"
                             ELSE "djnjc-preformatted error"

\* C18: a composition in which two templates have the same config, or a
\* template repeats the device's own config, is answered with the duplicate
\* error and nothing of it is stored or rendered; a save without such a
\* pair of sources succeeds
C18_DuplicateRejected ==
    (request.op \in ComposeOps /\ response.status # 400) =>
        LET names == request.params.templates
            pairs == {p \in (0..Len(names)) \X (1..Len(names)) : p[1] < p[2]}
        IN /\ (\E p \in pairs : /\ SourceAt(p[1]) = SourceAt(p[2])
                                /\ DOMAIN SourceAt(p[2]) # {})
                 => DuplicateReported
           /\ DuplicateReported =>
                 /\ \E p \in pairs : SameKeyTwice(p[1], p[2])
                 /\ device.templates # names
                 /\ request.op = "preview_device" => composed = NothingComposed
           /\ (\A p \in pairs : ~SameKeyTwice(p[1], p[2])) =>
                 /\ ~DuplicateReported
                 /\ request.op = "change_device" =>
                       /\ response.status = 302
                       /\ device.templates = names

\* the device's config repeats the config of the one template it is saved
\* with: the save is answered with the field error naming both
C18_Witness ==
    /\ request.op = "change_device"
    /\ request.params.templates = <<"dhcp">>
    /\ device.config = Catalog["dhcp"].config
    /\ response.content = <<"errors field-templates", "device", "dhcp">>
    /\ device.templates = <<>>

(* ---------------------------- context resolver --------------------------- *)

\* the value the claim gives a string scalar of the merged tree: for a
\* placeholder the device context's value, else the value of the last
\* template whose default_values define the variable, else the system
\* default; any other string, and an unresolved placeholder, stay as they are
Resolved(s) ==
    LET v == VarOf(s)
        names == request.params.templates
        defining == {i \in DOMAIN names : v \in DOMAIN Catalog[names[i]].default_values}
    IN IF v = NoValue THEN s
       ELSE IF v \in DOMAIN device.context THEN device.context[v]
       ELSE IF defining # {}
       THEN Catalog[names[CHOOSE i \in defining : \A j \in defining : j <= i]]
               .default_values[v]
       ELSE IF v = "id" THEN device.id
       ELSE IF v = "key" THEN device.key
       ELSE IF v = "name" THEN device.name
       ELSE s

\* C19: every string of the rendered tree is the string of the merged tree
\* with its variable taken from the device context, else from the applied
\* templates' default_values (later over earlier), else from the system
\* defaults
C19_ContextPrecedence ==
    (request.op \in ComposeOps /\ response.status # 400 /\ ~DuplicateReported) =>
        /\ DOMAIN composed.rendered = DOMAIN composed.merged
        /\ \A k \in DOMAIN composed.merged :
              IF k \in SequenceKeys
              THEN /\ Len(composed.rendered[k]) = Len(composed.merged[k])
                   /\ \A i \in DOMAIN composed.merged[k] :
                         composed.rendered[k][i] = Resolved(composed.merged[k][i])
              ELSE composed.rendered[k] = Resolved(composed.merged[k])

\* the context and both templates define ip and name: the context values are
\* rendered, not the template defaults and not the device name
C19_Witness ==
    /\ request.op = "preview_device"
    /\ request.params.templates = <<"var", "radio">>
    /\ device.context = [ip |-> "192.168.1.1", name |-> "ctx-name"]
    /\ composed.merged.general = "{{ ip }}"
    /\ composed.rendered.general = "192.168.1.1"
    /\ composed.rendered.radios = <<"radio0", "ctx-name">>

(* ------------------------------ merge order ------------------------------ *)

\* the elements the sources from the i-th on put under the sequence key, in
\* source order
RECURSIVE ElementsFrom(_, _)
ElementsFrom(i, k) ==
    IF i > Len(request.params.templates) THEN <<>>
    ELSE (IF k \in DOMAIN SourceAt(i) THEN SourceAt(i)[k] ELSE <<>>)
         \o ElementsFrom(i + 1, k)

\* the template list with the templates at positions i and i + 1 swapped
Swapped(names, i) ==
    [p \in DOMAIN names |->
        IF p = i THEN names[i + 1] ELSE IF p = i + 1 THEN names[i] ELSE names[p]]

\* C20: the merged tree of a composition is the left fold of Merge over the
\* templates; a sequence key holds the elements of all sources in
\* base-then-template order; swapping two adjacent templates that share a
\* sequence key swaps their elements, swapping two that share no key changes
\* nothing
C20_MergeOrder ==
    (request.op \in ComposeOps /\ response.status # 400 /\ ~DuplicateReported) =>
        LET names == request.params.templates
            config(n) == Catalog[n].config
        IN /\ composed.merged = MergeAll(device.config, names)
           /\ DOMAIN composed.merged =
                 UNION {DOMAIN SourceAt(i) : i \in 0..Len(names)}
           /\ \A k \in DOMAIN composed.merged \cap SequenceKeys :
                 composed.merged[k] = ElementsFrom(0, k)
           /\ \A i \in 1..(Len(names) - 1) :
                 LET swapped == MergeAll(device.config, Swapped(names, i))
                     shared == DOMAIN config(names[i]) \cap DOMAIN config(names[i + 1])
                 IN /\ shared = {} => swapped = composed.merged
                    /\ \A k \in shared \cap SequenceKeys :
                          /\ swapped[k] # composed.merged[k]
                          /\ \E before, after \in {<<>>} \cup
                                {SubSeq(swapped[k], a, b) :
                                    a \in 1..(Len(swapped[k]) + 1),
                                    b \in 0..Len(swapped[k])} :
                                /\ swapped[k] = before \o config(names[i + 1])[k]
                                                \o config(names[i])[k] \o after
                                /\ composed.merged[k] =
                                      before \o config(names[i])[k]
                                      \o config(names[i + 1])[k] \o after

\* the device's own interface comes first, then those of the two templates
\* in template order
C20_Witness ==
    /\ request.op = "preview_device"
    /\ request.params.templates = <<"wan", "dhcp">>
    /\ device.config = [interfaces |-> <<"lo0">>]
    /\ composed.merged.interfaces = <<"lo0", "eth1", "eth0">>

(* --------------------------- preview failures ---------------------------- *)

\* the failure kind of a preview request, read off its posted fields
FailureKind(req) ==
    IF req.op # "preview_device" THEN "none"
    ELSE IF req.params.config = "WRONG" THEN "malformed-input"
    ELSE IF req.params.config # "<device config>" THEN "validation-error"
    ELSE IF req.params.templates = WrongTemplateIds THEN "reference-error"
    ELSE "none"

\* C21: two previews that fail in different ways (malformed input, reference
\* error, validation error) are answered with different statuses, neither
\* with a server error, and neither stores anything
C21_FailuresDistinguishable ==
    [][(/\ FailureKind(request) # "none"
        /\ FailureKind(request') # "none"
        /\ FailureKind(request) # FailureKind(request'))
       => /\ response'.status # response.status
          /\ response'.status < 500
          /\ device' = device
      ]_vars

(* ----------------------- concurrent status reports ----------------------- *)

\* every handler has finished a report-status request for the Config and
\* was answered 200
AllReported(pk) ==
    \A h \in Handlers :
        /\ inflight[h].pc = "done"
        /\ inflight[h].pk = pk
        /\ inflight[h].response.status = 200

\* C22: when the last of the concurrent accepted report-status requests for
\* a Config has saved, the stored status is the status of that request, one
\* of the values reported
C22_LastWriterWins ==
    (request.op = "report_status_save" /\ AllReported(request.pk)) =>
        /\ configs[request.pk].status = request.params.status
        /\ configs[request.pk].status \in {inflight[h].params.status : h \in Handlers}

\* two requests reported different statuses; the one that saved last had
\* read the Config before the other saved
C22_Witness ==
    /\ request.op = "report_status_save"
    /\ AllReported(request.pk)
    /\ request.stale
    /\ inflight[1].params.status # inflight[2].params.status
    /\ configs[request.pk].tree = 0

\* C23: an accepted report-status request changes the status field of the
\* stored Config and nothing else, whatever another writer stored between
\* the request's read and its save
C23_OnlyStatusWritten ==
    [][(request'.op = "report_status_save" /\ response'.status = 200) =>
        configs' = [configs EXCEPT ![request'.pk].status = request'.params.status]
      ]_vars

(* ---------------------- concurrent subscriptions ------------------------- *)

\* C24: when the concurrent subscribe/unsubscribe requests have finished, a
\* (template, subscriber) pair that had no record has at most one
C24_RaceKeepsOneRecord ==
    (\A h \in Handlers : inflight[h].pc = "done") =>
        \A sub \in RaceSubscriberInputs :
            BagCardinality([r \in Matching(subscriptions, 1, sub) |-> subscriptions[r]]) <= 1

(* ------------------------------ idempotence ------------------------------ *)

\* the request carries the key of the existing Config it names and, for a
\* report, an allowed status
Authorized(req, cfgs) ==
    /\ req.op \in ProtocolOps
    /\ req.pk \in DOMAIN cfgs
    /\ req.params.key = cfgs[req.pk].key
    /\ req.op = "report_status" => req.params.status \in STATUS

\* C25: an authorized checksum, download or report-status request sent
\* again right after itself leaves the stored state as it is and gets the
\* same response
C25_Idempotent ==
    [][(/\ Authorized(request, configs)
        /\ request'.op = request.op
        /\ request'.pk = request.pk
        /\ request'.params = request.params)
       => /\ configs' = configs
          /\ response' = response
      ]_vars

\* an authorized download was answered with the archive, and the same
\* download sent again gets the same answer and changes nothing
C25_Witness ==
    /\ Authorized(request, configs)
    /\ request.op = "download"
    /\ response.status = 200
    /\ configs[request.pk].status = "modified"
    /\ download_config(configs, request.pk, request.params) =
          [configs |-> configs, response |-> response]

(* ------------------------- status state machine -------------------------- *)

\* C26: for every existing Config, whatever its status, a report-status
\* request with its key and any allowed status is accepted and stores that
\* status: no status is terminal
C26_NoTerminalStatus ==
    \A pk \in DOMAIN configs : \A s \in STATUS :
        LET r == report_status(configs, pk, [key |-> configs[pk].key, status |-> s])
        IN /\ configs[pk].status \in STATUS
           /\ r.response.status = 200
           /\ r.configs[pk].status = s

\* a Config is in status error while an accepted report has just moved
\* another Config to modified
C26_Witness ==
    /\ request.op = "report_status"
    /\ response.status = 200
    /\ request.params.status = "modified"
    /\ configs[request.pk].status = "modified"
    /\ \E p \in DOMAIN configs : configs[p].status = "error"

(* ------------------------------ device key ------------------------------- *)

\* C27: a checksum, download or report-status request, accepted or
\* rejected, leaves the key of every existing Config as it was
C27_KeyUnchanged ==
    [][request'.op \in ProtocolOps =>
        \A p \in DOMAIN configs :
            /\ p \in DOMAIN configs'
            /\ configs'[p].key = configs[p].key
      ]_vars

\* an accepted report has changed the status to applied and the key that
\* authorized it is still the key of the Config
C27_Witness ==
    /\ request.op = "report_status"
    /\ response.status = 200
    /\ request.params.status = "applied"
    /\ configs[request.pk].status = "applied"
    /\ configs[request.pk].key = request.params.key
    /\ Cardinality(DOMAIN configs) = 2

(* -------------------------- registration gate ---------------------------- *)

\* C28: with registration disabled no checksum, download, report-status or
\* register request creates a Config, and a register request is answered
\* 404 whatever secret, name and backend it carries
C28_RegistrationClosed ==
    [][(~REGISTRATION_ENABLED /\ request'.op \in ProtocolOps \cup {"register"}) =>
        /\ DOMAIN configs' = DOMAIN configs
        /\ request'.op = "register" => response'.status = 404
      ]_vars

\* a register request with the shared secret, a name and an allowed backend
\* was answered 404 while a Config id was free
C28_Witness ==
    /\ ~REGISTRATION_ENABLED
    /\ request.op = "register"
    /\ request.params = [secret |-> SHARED_SECRET, name |-> "test-device",
                         backend |-> "netjsonconfig.OpenWrt"]
    /\ response.status = 404
    /\ FreeIds(configs) # {}

(* ----------------------- subscriber notification ------------------------- *)

Converged ==
    /\ agent.running = configs[1].checksum
    /\ agent.pc = "poll"

\* C30 as stated: once the operator stops changing the Config, the device
\* that polls, downloads on a different checksum and reports applied ends
\* up running the config with the cached checksum, with the status applied,
\* and downloads no more
C30_ConvergesApplied ==
    <>[](Converged /\ configs[1].status = "applied")

\* C30, amended: once the operator stops changing the Config, the device
\* ends up running the config with the cached checksum and downloads no
\* more; the status is then applied unless the operator changed the Config
\* after the device's last report and left it with the checksum the device
\* already runs
C30_Converges ==
    <>[](Converged /\ (configs[1].status = "applied" \/ agent.unreported))

\* the operator has made all the changes, the device polled and was answered
\* the checksum of the config it runs, and the status is applied
C30_Witness ==
    /\ agent.changes = MaxChanges
    /\ Converged
    /\ request.op = "checksum"
    /\ response.status = 200
    /\ response.content = agent.running
    /\ configs[1].status = "applied"
====
